---- MODULE Spec2Model ----
(***************************************************************************)
(* Sustainability tracker: the activity store of                           *)
(* backend/app/data_service.py (DatabaseService.create_activity,           *)
(* update_activity, delete_activity), the HTTP handlers of                 *)
(* backend/app/main.py that wrap them, the aggregation pipelines and the  *)
(* activity list, and the two operations that create users.                *)
(*                                                                         *)
(* Numbers.  quantity and monetary_amount are whole numbers; co2e_per_unit *)
(* and total_co2e are fixed-point numbers counted in thousandths (1255     *)
(* stands for 1.255), so that quantity * co2e_per_unit is exact and the    *)
(* pipelines' $round to two decimals is a real conversion.                 *)
(*                                                                         *)
(* Optional values.  Python's None is the empty sequence <<>> and a        *)
(* present value v is <<v>>.                                               *)
(*                                                                         *)
(* Strings that are searched (the unit of a factor) are sequences of       *)
(* one-character strings; the other strings are TLA+ strings.              *)
(***************************************************************************)
EXTENDS Integers, Sequences, FiniteSets, TLC

VARIABLES activities, nextId, pc, args, update_doc, issued, resp, users

vars == <<activities, nextId, pc, args, update_doc, issued, resp, users>>

(***************************************************************************)
(* Bounds and the inputs the requests are drawn from.                      *)
(***************************************************************************)
\* The number of activities created in a behaviour of Spec.
MaxActs == 1

\* The number of activities created in a behaviour of SpecStore.
MaxStored == 2

\* The number of activities created in a behaviour of SpecConc.
MaxConcActs == 1

Procs == {"p1", "p2"}

Users == {"u1", "u2"}

None == <<>>

Some(v) == <<v>>

\* The emission_factors collection.  No operation of the program writes it.
Factors ==
  [ f1 |-> [unit |-> <<"k", "g">>, co2e_per_unit |-> 1255,
            item_name |-> "Beef", category_id |-> "c1"],
    f2 |-> [unit |-> <<"U", "S", "D">>, co2e_per_unit |-> 433,
            item_name |-> "Electricity", category_id |-> "c2"],
    f3 |-> [unit |-> <<"k", "g">>, co2e_per_unit |-> 2510,
            item_name |-> "Chicken", category_id |-> "c1"],
    f4 |-> [unit |-> <<"L">>, co2e_per_unit |-> 4,
            item_name |-> "Water", category_id |-> "c1"] ]

\* The categories collection.  No operation of the program writes it.
Categories == [c1 |-> [name |-> "Food"], c2 |-> [name |-> "Energy"]]

FactorIds == DOMAIN Factors

\* Factor ids a request may carry: two of the catalog's, a well-formed id
\* that is not in the catalog, and the empty string (not a well-formed
\* ObjectId).
RequestFactorIds == {"f1", "f2", "fX", ""}

Quantities == {1, 2}

Amounts == {0, 2}

Dates == {1, 2}

\* ActivityCreate (models.py): all four fields carry a value.
CreatePayloads ==
  [factor_id : RequestFactorIds, quantity : Quantities,
   monetary_amount : Amounts, date : Dates]

\* ActivityUpdate (models.py): every field is Optional, default None.
Opt(S) == {None} \cup {Some(v) : v \in S}

UpdatePayloads ==
  [factor_id : Opt(RequestFactorIds), quantity : Opt({2}),
   monetary_amount : Opt(Amounts), date : Opt({2})]

Present(d) ==
  {k \in {"factor_id", "quantity", "monetary_amount", "date"} : d[k] # None}

\* The inputs of the concurrent specification: a part of those above.
ConcCreatePayloads ==
  [factor_id : {"f1", "f2"}, quantity : {1}, monetary_amount : {2}, date : {1}]

ConcUpdatePayloads ==
  {d \in UpdatePayloads :
     /\ Cardinality(Present(d)) = 1
     /\ d.factor_id \in {None, Some("f1"), Some("f2")}
     /\ d.monetary_amount \in {None, Some(0)}
     /\ d.date = None}

\* The inputs of the specification with several stored activities.
StoreCreatePayloads ==
  [factor_id : {"f1", "f2"}, quantity : Quantities, monetary_amount : {2},
   date : Dates]

StoreUpdatePayloads ==
  {d \in ConcUpdatePayloads : d.monetary_amount = None}

\* The number of activities created in a behaviour of SpecQuery.
MaxListed == 2

\* The inputs of the specification of the read operations.  A date is a
\* day, counted from 1 for 2024-01-01: a Saturday, the Sunday after it,
\* and the first day of the next year.
QueryDates == {6, 7, 367}

QueryCreatePayloads ==
  { [factor_id |-> c[1], quantity |-> c[2], monetary_amount |-> c[3],
     date |-> d]
    : c \in {<<"f1", 1, 0>>, <<"f1", 2, 0>>, <<"f3", 1, 0>>, <<"f2", 1, 2>>},
      d \in QueryDates }

\* The inputs of the specification that mixes writes and summaries: the
\* factor f4 has a coefficient of 0.004 per unit.
MaxMixed == 1

MixedCreatePayloads ==
  [factor_id : {"f1", "f2", "f4"}, quantity : {1}, monetary_amount : Amounts,
   date : {6}]

MixedUpdatePayloads ==
  [factor_id : Opt({"f1", "f2", "f4"}), quantity : {None},
   monetary_amount : Opt({0}), date : {None}]

\* The limit parameter of the activity list; 50 is its default.
Limits == {0, 1, 2, 50}

\* The number of users created in a behaviour of SpecUsers.
MaxUsers == 2

\* The inputs of the user requests.
Usernames == {"ann", "bob"}

Emails == {"a@x", "b@x"}

\* The legacy path's email is optional.
LegacyEmails == {"a@x"}

(***************************************************************************)
(* Pure helpers.                                                           *)
(***************************************************************************)
\* Python's `sub in s` on strings.
PyIn(sub, s) ==
  \E i \in 0..(Len(s) - Len(sub)) : SubSeq(s, i + 1, i + Len(sub)) = sub

USD == <<"U", "S", "D">>

\* bson.ObjectId(s): raises InvalidId unless s is a well-formed id.
ValidObjectId(s) == s # ""

\* Python truthiness of an Optional[str].
Truthy(o) == o # None /\ o[1] # ""

\* collection.find_one({"_id": ObjectId(id)}) on emission_factors.
FindFactor(id) == IF id \in FactorIds THEN Some(Factors[id]) ELSE None

\* A filter on the activities collection: which of _id and user_id it
\* constrains, and to what.
Filter(id, user) == [_id |-> id, user_id |-> user]

Matches(id, f) ==
  /\ id \in DOMAIN activities
  /\ f._id # None => f._id[1] = id
  /\ f.user_id # None => f.user_id[1] = activities[id].user_id

Matching(f) == {id \in DOMAIN activities : Matches(id, f)}

\* The hybrid rule shared by create_activity and update_activity.
IsEconomic(factor) == PyIn(USD, factor.unit)

\* Mutant of NotPositive: only a negative amount is rejected.
NotPositive_Negative(monetary_amount) == monetary_amount < 0

\* The validation of the economic branch: monetary_amount <= 0.
NotPositive(monetary_amount) == monetary_amount <= 0

TotalCO2e(factor, quantity, monetary_amount) ==
  IF IsEconomic(factor)
    THEN monetary_amount * factor.co2e_per_unit
    ELSE quantity * factor.co2e_per_unit

(***************************************************************************)
(* Responses: what the service raised or returned, and what the HTTP       *)
(* handler of main.py made of it.                                          *)
(***************************************************************************)
NoResp == [kind |-> "none", detail |-> "", status |-> 0, body |-> None]

Ok(body) == [kind |-> "ok", detail |-> "", status |-> 200, body |-> Some(body)]

\* create_activity (main.py): ValueError -> 400, anything else -> 500.
CreateError(kind, detail) ==
  IF kind = "ValueError"
    THEN [kind |-> kind, detail |-> detail, status |-> 400, body |-> None]
    ELSE [kind |-> kind, detail |-> "Internal server error", status |-> 500,
          body |-> None]

\* update_user_activity, delete_user_activity: ValueError -> 404, else 500.
MutateError(kind, detail) ==
  IF kind = "ValueError"
    THEN [kind |-> kind, detail |-> detail, status |-> 404, body |-> None]
    ELSE [kind |-> kind, detail |-> "Internal server error", status |-> 500,
          body |-> None]

NoArgs == [op |-> "none", user_id |-> "", activity_id |-> 0, data |-> None]

Init ==
  /\ activities = <<>>
  /\ nextId = 1
  /\ pc = [p \in Procs |-> "idle"]
  /\ args = [p \in Procs |-> NoArgs]
  /\ update_doc = [p \in Procs |-> None]
  /\ issued = [p \in Procs |-> None]
  /\ resp = [p \in Procs |-> NoResp]
  /\ users = <<>>

Finish(p, r) ==
  /\ pc' = [pc EXCEPT ![p] = "done"]
  /\ resp' = [resp EXCEPT ![p] = r]

(***************************************************************************)
(* create_activity                                                         *)
(***************************************************************************)
\* Mutant of ActivityDoc: the amount is kept for economic factors only.
ActivityDoc_DropAmount(user_id, data, factor) ==
  [user_id |-> user_id,
   factor_id |-> data.factor_id,
   quantity |-> data.quantity,
   monetary_amount |-> IF IsEconomic(factor) THEN data.monetary_amount ELSE 0,
   total_co2e |-> TotalCO2e(factor, data.quantity, data.monetary_amount),
   date |-> data.date,
   unit_used |-> factor.unit]

\* The document create_activity inserts.
ActivityDoc(user_id, data, factor) ==
  [user_id |-> user_id,
   factor_id |-> data.factor_id,
   quantity |-> data.quantity,
   monetary_amount |-> data.monetary_amount,
   total_co2e |-> TotalCO2e(factor, data.quantity, data.monetary_amount),
   date |-> data.date,
   unit_used |-> factor.unit]

\* Mutant of CreateActivity: the document is inserted before the amount of
\* an economic activity is validated.
CreateActivity_InsertFirst(p, user_id, data) ==
  /\ pc[p] = "idle"
  /\ args' = [args EXCEPT ![p] =
       [op |-> "create", user_id |-> user_id, activity_id |-> 0,
        data |-> Some(data)]]
  /\ UNCHANGED <<update_doc, users>>
  /\ IF ~ValidObjectId(data.factor_id)
       THEN /\ Finish(p, CreateError("InvalidId", "invalid ObjectId"))
            /\ UNCHANGED <<activities, nextId, issued>>
     ELSE IF FindFactor(data.factor_id) = None
       THEN /\ Finish(p, CreateError("ValueError", "Emission factor not found"))
            /\ UNCHANGED <<activities, nextId, issued>>
     ELSE LET factor == FindFactor(data.factor_id)[1]
              activity_doc == ActivityDoc(user_id, data, factor)
          IN /\ activities' = activities @@ (nextId :> activity_doc)
             /\ nextId' = nextId + 1
             /\ issued' = [issued EXCEPT ![p] =
                  [op |-> "insert_one", filter |-> Filter(None, None)]]
             /\ IF IsEconomic(factor) /\ NotPositive(data.monetary_amount)
                  THEN Finish(p, CreateError("ValueError",
                    "Monetary amount must be positive for economic activities"))
                  ELSE Finish(p, Ok([_id |-> nextId] @@ activity_doc))

CreateActivity(p, user_id, data) ==
  /\ pc[p] = "idle"
  /\ args' = [args EXCEPT ![p] =
       [op |-> "create", user_id |-> user_id, activity_id |-> 0,
        data |-> Some(data)]]
  /\ UNCHANGED <<update_doc, users>>
  /\ IF ~ValidObjectId(data.factor_id)
       THEN /\ Finish(p, CreateError("InvalidId", "invalid ObjectId"))
            /\ UNCHANGED <<activities, nextId, issued>>
     ELSE IF FindFactor(data.factor_id) = None
       THEN /\ Finish(p, CreateError("ValueError", "Emission factor not found"))
            /\ UNCHANGED <<activities, nextId, issued>>
     ELSE LET factor == FindFactor(data.factor_id)[1] IN
       IF IsEconomic(factor) /\ NotPositive(data.monetary_amount)
         THEN /\ Finish(p, CreateError("ValueError",
                   "Monetary amount must be positive for economic activities"))
              /\ UNCHANGED <<activities, nextId, issued>>
         ELSE LET activity_doc == ActivityDoc(user_id, data, factor)
              IN /\ activities' = activities @@ (nextId :> activity_doc)
                 /\ nextId' = nextId + 1
                 /\ issued' = [issued EXCEPT ![p] =
                      [op |-> "insert_one", filter |-> Filter(None, None)]]
                 /\ Finish(p, Ok([_id |-> nextId] @@ activity_doc))

(***************************************************************************)
(* update_activity, one action per store operation.  The lookup of the     *)
(* emission factor reads a collection nothing writes, so it is evaluated   *)
(* in the step of the find_one on activities that precedes it.             *)
(***************************************************************************)
\* Mutant of MergedFactorId: the factor of the fetched document is kept.
MergedFactorId_KeepOriginal(data, original) == original.factor_id

\* Step 3: merge the payload with the fetched document.
MergedFactorId(data, original) ==
  IF Truthy(data.factor_id) THEN data.factor_id[1] ELSE original.factor_id

MergedQuantity(data, original) ==
  IF data.quantity # None THEN data.quantity[1] ELSE original.quantity

MergedAmount(data, original) ==
  IF data.monetary_amount # None
    THEN data.monetary_amount[1] ELSE original.monetary_amount

\* Mutant of UpdateDoc: the quantity of an economic activity is set to 1.
UpdateDoc_UnitQuantity(data, factor_id, factor, quantity, monetary_amount) ==
  [factor_id |-> factor_id,
   quantity |-> IF IsEconomic(factor) THEN 1 ELSE quantity,
   monetary_amount |-> monetary_amount,
   total_co2e |-> TotalCO2e(factor, quantity, monetary_amount),
   unit_used |-> factor.unit,
   date |-> data.date]

\* Steps 5 and 6: the $set document.  date is Some(d) when the payload
\* carries a date and None when the $set has no date key.
UpdateDoc(data, factor_id, factor, quantity, monetary_amount) ==
  [factor_id |-> factor_id,
   quantity |-> quantity,
   monetary_amount |-> monetary_amount,
   total_co2e |-> TotalCO2e(factor, quantity, monetary_amount),
   unit_used |-> factor.unit,
   date |-> data.date]

\* Mutant of UpdateFetchFilter: the fetch selects by activity_id alone.
UpdateFetchFilter_ById(user_id, activity_id) == Filter(Some(activity_id), None)

\* The filter of step 1 (the ownership fetch).
UpdateFetchFilter(user_id, activity_id) ==
  Filter(Some(activity_id), Some(user_id))

\* The filter of step 7 (update_one) and of step 8 (the re-read).
UpdateWriteFilter(user_id, activity_id) == Filter(Some(activity_id), None)

\* Mutant of ApplySet: a patch that leaves total_co2e as it was.
ApplySet_StaleTotal(stored, doc) ==
  [stored EXCEPT
     !.factor_id = doc.factor_id,
     !.quantity = doc.quantity,
     !.monetary_amount = doc.monetary_amount,
     !.unit_used = doc.unit_used,
     !.date = IF doc.date # None THEN doc.date[1] ELSE @]

\* Mutant of ApplySet: a patch without the quantity and the amount.
ApplySet_KeepQuantity(stored, doc) ==
  [stored EXCEPT
     !.factor_id = doc.factor_id,
     !.total_co2e = doc.total_co2e,
     !.unit_used = doc.unit_used,
     !.date = IF doc.date # None THEN doc.date[1] ELSE @]

\* Mutant of ApplySet: a patch that leaves unit_used as it was.
ApplySet_KeepUnit(stored, doc) ==
  [stored EXCEPT
     !.factor_id = doc.factor_id,
     !.quantity = doc.quantity,
     !.monetary_amount = doc.monetary_amount,
     !.total_co2e = doc.total_co2e,
     !.date = IF doc.date # None THEN doc.date[1] ELSE @]

\* {"$set": doc} applied to a stored document.
ApplySet(stored, doc) ==
  [stored EXCEPT
     !.factor_id = doc.factor_id,
     !.quantity = doc.quantity,
     !.monetary_amount = doc.monetary_amount,
     !.total_co2e = doc.total_co2e,
     !.unit_used = doc.unit_used,
     !.date = IF doc.date # None THEN doc.date[1] ELSE @]

UpdateFetch(p, user_id, activity_id, data) ==
  /\ pc[p] = "idle"
  /\ args' = [args EXCEPT ![p] =
       [op |-> "update", user_id |-> user_id, activity_id |-> activity_id,
        data |-> Some(data)]]
  /\ issued' = [issued EXCEPT ![p] =
       [op |-> "find_one", filter |-> UpdateFetchFilter(user_id, activity_id)]]
  /\ UNCHANGED <<activities, nextId, users>>
  /\ LET found == Matching(UpdateFetchFilter(user_id, activity_id)) IN
     IF found = {}
       THEN /\ Finish(p, MutateError("ValueError",
                 "Activity not found or user unauthorized"))
            /\ update_doc' = update_doc
     ELSE LET original == activities[CHOOSE id \in found : TRUE]
              factor_id == MergedFactorId(data, original)
              quantity == MergedQuantity(data, original)
              monetary_amount == MergedAmount(data, original)
          IN
       IF FindFactor(factor_id) = None
         THEN /\ Finish(p, MutateError("ValueError", "Emission factor not found"))
              /\ update_doc' = update_doc
       ELSE LET factor == FindFactor(factor_id)[1] IN
         IF IsEconomic(factor) /\ NotPositive(monetary_amount)
           THEN /\ Finish(p, MutateError("ValueError",
                     "Monetary amount must be positive for economic activities"))
                /\ update_doc' = update_doc
           ELSE /\ pc' = [pc EXCEPT ![p] = "update_one"]
                /\ update_doc' = [update_doc EXCEPT ![p] =
                     Some(UpdateDoc(data, factor_id, factor, quantity,
                                    monetary_amount))]
                /\ resp' = resp

\* Mutant of UpdateWrite: matched_count is not examined; the request goes
\* on to the re-read whatever update_one matched.
UpdateWrite_Unchecked(p) ==
  /\ pc[p] = "update_one"
  /\ LET f == UpdateWriteFilter(args[p].user_id, args[p].activity_id)
         matched == Matching(f)
     IN /\ issued' = [issued EXCEPT ![p] = [op |-> "update_one", filter |-> f]]
        /\ activities' =
             IF matched = {}
               THEN activities
               ELSE [activities EXCEPT ![CHOOSE id \in matched : TRUE] =
                       ApplySet(@, update_doc[p][1])]
        /\ pc' = [pc EXCEPT ![p] = "reread"]
        /\ resp' = resp
  /\ UNCHANGED <<nextId, args, update_doc, users>>

\* Step 7: update_one by _id, without upsert, and the matched_count test.
UpdateWrite(p) ==
  /\ pc[p] = "update_one"
  /\ LET f == UpdateWriteFilter(args[p].user_id, args[p].activity_id)
         matched == Matching(f)
     IN /\ issued' = [issued EXCEPT ![p] = [op |-> "update_one", filter |-> f]]
        /\ IF matched = {}
             THEN /\ Finish(p, MutateError("ValueError", "Activity not found"))
                  /\ activities' = activities
             ELSE /\ activities' =
                       [activities EXCEPT ![CHOOSE id \in matched : TRUE] =
                          ApplySet(@, update_doc[p][1])]
                  /\ pc' = [pc EXCEPT ![p] = "reread"]
                  /\ resp' = resp
  /\ UNCHANGED <<nextId, args, update_doc, users>>

\* Step 8, and the handler's conversion of the result: subscripting the
\* None of a failed re-read raises TypeError, which the handler turns
\* into a 500.
UpdateReread(p) ==
  /\ pc[p] = "reread"
  /\ LET f == UpdateWriteFilter(args[p].user_id, args[p].activity_id)
         found == Matching(f)
     IN /\ issued' = [issued EXCEPT ![p] = [op |-> "find_one", filter |-> f]]
        /\ IF found = {}
             THEN Finish(p, MutateError("TypeError", "NoneType"))
             ELSE LET id == CHOOSE id \in found : TRUE
                  IN Finish(p, Ok([_id |-> id] @@ activities[id]))
  /\ UNCHANGED <<activities, nextId, args, update_doc, users>>

(***************************************************************************)
(* delete_activity                                                         *)
(***************************************************************************)
\* Mutant of DeleteFilter: the delete selects by activity_id alone.
DeleteFilter_ById(user_id, activity_id) == Filter(Some(activity_id), None)

DeleteFilter(user_id, activity_id) == Filter(Some(activity_id), Some(user_id))

DeleteActivity(p, user_id, activity_id) ==
  /\ pc[p] = "idle"
  /\ args' = [args EXCEPT ![p] =
       [op |-> "delete", user_id |-> user_id, activity_id |-> activity_id,
        data |-> None]]
  /\ LET f == DeleteFilter(user_id, activity_id)
         matched == Matching(f)
     IN /\ issued' = [issued EXCEPT ![p] = [op |-> "delete_one", filter |-> f]]
        /\ IF matched = {}
             THEN /\ Finish(p, MutateError("ValueError",
                       "Activity not found or user unauthorized"))
                  /\ activities' = activities
             ELSE LET id == CHOOSE id \in matched : TRUE IN
                  /\ activities' =
                       [i \in DOMAIN activities \ {id} |-> activities[i]]
                  /\ Finish(p, [kind |-> "ok", detail |-> "", status |-> 200,
                       body |-> Some([message |-> "Activity deleted successfully"])])
  /\ UNCHANGED <<nextId, update_doc, users>>

(***************************************************************************)
(* Aggregation pipelines.  A pipeline is evaluated stage by stage on the   *)
(* stored activities.  $sort leaves the order of rows with equal keys to   *)
(* the store, so a summary is the set of the lists the store may return.   *)
(***************************************************************************)
\* {"$regex": pattern} on a string field: the pattern occurs somewhere.
RegexMatch(pattern, s) ==
  \E i \in 1..(Len(s) - Len(pattern) + 1) :
    \A j \in 1..Len(pattern) : s[i + j - 1] = pattern[j]

\* Mutant of PhysicalMatch: the $not is missing.
PhysicalMatch_NoNot(A, user_id) ==
  A.user_id = user_id /\ RegexMatch(USD, A.unit_used)

\* $match of get_physical_emissions_summary.
PhysicalMatch(A, user_id) ==
  A.user_id = user_id /\ ~RegexMatch(USD, A.unit_used)

\* $match of get_economic_impact_analysis.
EconomicMatch(A, user_id) ==
  A.user_id = user_id /\ RegexMatch(USD, A.unit_used)

\* $lookup on emission_factors followed by $unwind: an activity whose
\* factor is not in the collection yields no row.
Joined(ids) == {id \in ids : FindFactor(activities[id].factor_id) # None}

ItemName(id) == FindFactor(activities[id].factor_id)[1].item_name

RECURSIVE SumField(_, _)
\* {"$sum": "$field"} over the activities ids.
SumField(ids, field) ==
  IF ids = {} THEN 0
  ELSE LET id == CHOOSE i \in ids : TRUE
       IN activities[id][field] + SumField(ids \ {id}, field)

\* $group by factor_details.item_name.
GroupByItem(ids) ==
  { [_id |-> k,
     total_spending_usd |->
       SumField({id \in ids : ItemName(id) = k}, "monetary_amount"),
     total_co2e_kg |->
       SumField({id \in ids : ItemName(id) = k}, "total_co2e")]
    : k \in {ItemName(id) : id \in ids} }

\* {"$sort": {"total_co2e_kg": -1}}: the lists of the rows in non-increasing
\* order of total_co2e_kg.
SortByTotalDesc(rows) ==
  { o \in [1..Cardinality(rows) -> rows] :
      /\ \A r \in rows : \E i \in DOMAIN o : o[i] = r
      /\ \A i, j \in DOMAIN o : i < j => o[i].total_co2e_kg >= o[j].total_co2e_kg }

\* Mutant of Round2: the digits after the second decimal are cut off.
Round2_Truncate(x) == x - (x % 10)

\* {"$round": [x, 2]} on thousandths: to the nearest hundredth, a half to
\* the even hundredth.
Round2(x) ==
  LET r == x % 10
      low == x - r
  IN IF r < 5 THEN low
     ELSE IF r > 5 THEN low + 10
     ELSE IF (low \div 10) % 2 = 0 THEN low ELSE low + 10

PhysicalGroups(user_id) ==
  GroupByItem(Joined({id \in DOMAIN activities :
                        PhysicalMatch(activities[id], user_id)}))

EconomicGroups(user_id) ==
  GroupByItem(Joined({id \in DOMAIN activities :
                        EconomicMatch(activities[id], user_id)}))

\* get_physical_emissions_summary
GetPhysicalEmissionsSummary(user_id) ==
  { [i \in DOMAIN o |->
       [item_name |-> o[i]._id,
        total_co2e_kg |-> Round2(o[i].total_co2e_kg)]]
    : o \in SortByTotalDesc(PhysicalGroups(user_id)) }

\* get_economic_impact_analysis
GetEconomicImpactAnalysis(user_id) ==
  { [i \in DOMAIN o |->
       [sector |-> o[i]._id,
        total_spending_usd |-> Round2(o[i].total_spending_usd),
        total_co2e_kg |-> Round2(o[i].total_co2e_kg)]]
    : o \in SortByTotalDesc(EconomicGroups(user_id)) }

\* collection.find_one({"_id": id}) on categories.
FindCategory(id) ==
  IF id \in DOMAIN Categories THEN Some(Categories[id]) ELSE None

\* Mutant of UserMatch: the $match has no user_id.
UserMatch_All(A, user_id) == TRUE

\* {"$match": {"user_id": ObjectId(user_id)}}
UserMatch(A, user_id) == A.user_id = user_id

UserActivities(user_id) ==
  {id \in DOMAIN activities : UserMatch(activities[id], user_id)}

\* Mutant of CategoryName: the rows are grouped by the factor's item name.
CategoryName_Item(id) == FindFactor(activities[id].factor_id)[1].item_name

\* The second $lookup and $unwind: the name of the factor's category.
CategoryName(id) ==
  FindCategory(FindFactor(activities[id].factor_id)[1].category_id)[1].name

JoinedCategory(ids) ==
  {id \in Joined(ids) :
     FindCategory(FindFactor(activities[id].factor_id)[1].category_id) # None}

\* $group by category_info.name.
GroupByCategory(ids) ==
  { [_id |-> k,
     total_co2e_kg |->
       SumField({id \in ids : CategoryName(id) = k}, "total_co2e")]
    : k \in {CategoryName(id) : id \in ids} }

CategoryGroups(user_id) ==
  GroupByCategory(JoinedCategory(UserActivities(user_id)))

\* get_summary_by_category
GetSummaryByCategory(user_id) ==
  { [i \in DOMAIN o |->
       [category |-> o[i]._id,
        total_co2e_kg |-> Round2(o[i].total_co2e_kg)]]
    : o \in SortByTotalDesc(CategoryGroups(user_id)) }

\* Mutant of TopOne: the row the ascending order puts first.
TopOne_Last(sorted) ==
  { IF DOMAIN o = {} THEN None ELSE Some(o[Cardinality(DOMAIN o)])
    : o \in sorted }

\* {"$limit": 1} and the handler's `rows[0] if rows else None`, on the
\* lists a $sort may return.
TopOne(sorted) ==
  { IF DOMAIN o = {} THEN None ELSE Some(o[1]) : o \in sorted }

\* get_biggest_impactors: the top group of each kind, not rounded.
GetBiggestImpactors(user_id) ==
  { [biggest_physical |->
       IF x = None THEN None
       ELSE Some([item_name |-> x[1]._id,
                  total_co2e_kg |-> x[1].total_co2e_kg]),
     biggest_economic |->
       IF y = None THEN None
       ELSE Some([sector |-> y[1]._id,
                  total_co2e_kg |-> y[1].total_co2e_kg])]
    : x \in TopOne(SortByTotalDesc(PhysicalGroups(user_id))),
      y \in TopOne(SortByTotalDesc(EconomicGroups(user_id))) }

(***************************************************************************)
(* Dates and the date operators of the pipelines.  A stored date is a day, *)
(* counted from 1 for 2024-01-01 (a Monday).                               *)
(***************************************************************************)
IsLeap(y) == (y % 4 = 0 /\ y % 100 # 0) \/ y % 400 = 0

DaysInYear(y) == IF IsLeap(y) THEN 366 ELSE 365

DaysInMonth(y, m) ==
  IF m = 2 THEN (IF IsLeap(y) THEN 29 ELSE 28)
  ELSE IF m \in {4, 6, 9, 11} THEN 30 ELSE 31

RECURSIVE YearFrom(_, _)
YearFrom(d, y) ==
  IF d <= DaysInYear(y) THEN [year |-> y, day |-> d]
  ELSE YearFrom(d - DaysInYear(y), y + 1)

RECURSIVE MonthFrom(_, _, _)
MonthFrom(d, y, m) ==
  IF d <= DaysInMonth(y, m) THEN [month |-> m, day |-> d]
  ELSE MonthFrom(d - DaysInMonth(y, m), y, m + 1)

\* {"$year": "$date"}
Year(date) == YearFrom(date, 2024).year

\* {"$dayOfYear": "$date"}: 1 to 366.
DayOfYear(date) == YearFrom(date, 2024).day

\* {"$month": "$date"}: 1 to 12.
Month(date) == MonthFrom(DayOfYear(date), Year(date), 1).month

DayOfMonth(date) == MonthFrom(DayOfYear(date), Year(date), 1).day

\* 0 for a Sunday to 6 for a Saturday.
DayOfWeek(date) == date % 7

\* {"$week": "$date"}: 0 to 53; weeks begin on Sundays and week 1 begins
\* with the first Sunday of the year.
Week(date) == (DayOfYear(date) - 1 + 7 - DayOfWeek(date)) \div 7

\* The _id of the $group stage of each time summary.
MonthKey(date) == [year |-> Year(date), month |-> Month(date)]

WeekKey(date) == [year |-> Year(date), week |-> Week(date)]

DayKey(date) == [year |-> Year(date), day |-> DayOfYear(date)]

KeyOf(summary, date) ==
  CASE summary = "monthly" -> MonthKey(date)
    [] summary = "weekly" -> WeekKey(date)
    [] summary = "daily" -> DayKey(date)

\* $group of a time summary: the key, the total, and for the daily summary
\* the date of the first activity of the group.
GroupByDate(ids, summary) ==
  { [_id |-> k,
     date |->
       activities[CHOOSE id \in ids :
                    KeyOf(summary, activities[id].date) = k].date,
     total_co2e_kg |->
       SumField({id \in ids : KeyOf(summary, activities[id].date) = k},
                "total_co2e")]
    : k \in {KeyOf(summary, activities[id].date) : id \in ids} }

\* {"_id.year": 1, "_id.month": 1} as one number.
MonthRank(row) == row._id.year * 100 + row._id.month

\* {"_id.year": 1, "_id.week": 1} as one number.
WeekRank(row) == row._id.year * 100 + row._id.week

\* {"date": 1}
DateRank(row) == row.date

RankOf(summary, row) ==
  CASE summary = "monthly" -> MonthRank(row)
    [] summary = "weekly" -> WeekRank(row)
    [] summary = "daily" -> DateRank(row)

\* The $sort of a time summary: the lists of the rows in ascending order.
SortAscBy(rows, summary) ==
  { o \in [1..Cardinality(rows) -> rows] :
      /\ \A r \in rows : \E i \in DOMAIN o : o[i] = r
      /\ \A i, j \in DOMAIN o :
           i < j => RankOf(summary, o[i]) <= RankOf(summary, o[j]) }

\* get_monthly_summary; the label "YYYY-M" is kept as its parts.
GetMonthlySummary(user_id) ==
  { [i \in DOMAIN o |->
       [label |-> [year |-> o[i]._id.year, month |-> o[i]._id.month],
        emissions |-> Round2(o[i].total_co2e_kg)]]
    : o \in SortAscBy(GroupByDate(UserActivities(user_id), "monthly"),
                      "monthly") }

\* get_weekly_summary; the label "Week W, YYYY" is kept as its parts.
GetWeeklySummary(user_id) ==
  { [i \in DOMAIN o |->
       [label |-> [week |-> o[i]._id.week, year |-> o[i]._id.year],
        emissions |-> Round2(o[i].total_co2e_kg)]]
    : o \in SortAscBy(GroupByDate(UserActivities(user_id), "weekly"),
                      "weekly") }

\* get_daily_summary; the label "YYYY-MM-DD" is kept as its parts.
GetDailySummary(user_id) ==
  { [i \in DOMAIN o |->
       [label |-> [year |-> Year(o[i].date), month |-> Month(o[i].date),
                   day |-> DayOfMonth(o[i].date)],
        emissions |-> Round2(o[i].total_co2e_kg)]]
    : o \in SortAscBy(GroupByDate(UserActivities(user_id), "daily"),
                      "daily") }

(***************************************************************************)
(* get_user_activities                                                     *)
(***************************************************************************)
\* {"$sort": {"date": -1}} on the user's activities: the lists of their ids
\* in non-increasing order of date.
SortByDateDesc(ids) ==
  { o \in [1..Cardinality(ids) -> ids] :
      /\ \A id \in ids : \E i \in DOMAIN o : o[i] = id
      /\ \A i, j \in DOMAIN o :
           i < j => activities[o[i]].date >= activities[o[j]].date }

\* {"$limit": limit} for a positive limit.
Limit(o, limit) ==
  [i \in 1..(IF limit < Cardinality(DOMAIN o)
               THEN limit ELSE Cardinality(DOMAIN o)) |-> o[i]]

\* The two $lookup/$unwind pairs: only documents whose factor and category
\* are found get through.
HasDetails(id) == id \in JoinedCategory({id})

RECURSIVE Unwind(_)
Unwind(o) ==
  IF DOMAIN o = {} THEN <<>>
  ELSE LET n == Cardinality(DOMAIN o)
           front == Unwind([i \in 1..(n - 1) |-> o[i]])
       IN IF HasDetails(o[n]) THEN Append(front, o[n]) ELSE front

\* $project
ListProject(id) ==
  [_id |-> id,
   name |-> ItemName(id),
   category |-> CategoryName(id),
   quantity |-> activities[id].quantity,
   monetary_amount |-> activities[id].monetary_amount,
   emissions |-> activities[id].total_co2e,
   date |-> activities[id].date,
   unit |-> activities[id].unit_used]

GetUserActivities(user_id, limit) ==
  { LET ids == Unwind(Limit(o, limit))
    IN [i \in DOMAIN ids |-> ListProject(ids[i])]
    : o \in SortByDateDesc(UserActivities(user_id)) }

(***************************************************************************)
(* The read handlers of main.py.                                           *)
(***************************************************************************)
QueryNames ==
  {"physical", "economic", "by-category", "biggest-impactors",
   "monthly", "weekly", "daily"}

QueryResults(name, user_id) ==
  CASE name = "physical" -> GetPhysicalEmissionsSummary(user_id)
    [] name = "economic" -> GetEconomicImpactAnalysis(user_id)
    [] name = "by-category" -> GetSummaryByCategory(user_id)
    [] name = "biggest-impactors" -> GetBiggestImpactors(user_id)
    [] name = "monthly" -> GetMonthlySummary(user_id)
    [] name = "weekly" -> GetWeeklySummary(user_id)
    [] name = "daily" -> GetDailySummary(user_id)

\* A summary route: the pipeline runs and its rows are returned.
Query(p, user_id, name) ==
  /\ pc[p] = "idle"
  /\ args' = [args EXCEPT ![p] =
       [op |-> name, user_id |-> user_id, activity_id |-> 0, data |-> None]]
  /\ \E r \in QueryResults(name, user_id) : Finish(p, Ok(r))
  /\ UNCHANGED <<activities, nextId, update_doc, issued, users>>

\* GET /users/{user_id}/activities.  The store rejects a $limit that is not
\* positive; the handler catches nothing, so the request ends in a 500.
ListActivities(p, user_id, limit) ==
  /\ pc[p] = "idle"
  /\ args' = [args EXCEPT ![p] =
       [op |-> "list", user_id |-> user_id, activity_id |-> 0,
        data |-> Some([limit |-> limit])]]
  /\ IF limit <= 0
       THEN Finish(p, [kind |-> "OperationFailure",
                       detail |-> "Internal Server Error", status |-> 500,
                       body |-> None])
       ELSE \E r \in GetUserActivities(user_id, limit) : Finish(p, Ok(r))
  /\ UNCHANGED <<activities, nextId, update_doc, issued, users>>

(***************************************************************************)
(* create_user_with_password and create_user, one action per store         *)
(* operation on the users collection.  Nothing deletes or rewrites a user  *)
(* record's username or email, so the handler's get_user of the record it  *)
(* has just inserted or found is evaluated in the same step.               *)
(***************************************************************************)
\* users.find_one(filter): the first record with the value in the field.
FindUser(field, value) ==
  LET found == {i \in DOMAIN users : users[i][field] = value}
  IN IF found = {} THEN None
     ELSE Some(CHOOSE i \in found : \A j \in found : i <= j)

\* sign_up (main.py): ValueError -> 400, anything else -> 500.
SignUpError(kind, detail) ==
  IF kind = "ValueError"
    THEN [kind |-> kind, detail |-> detail, status |-> 400, body |-> None]
    ELSE [kind |-> kind, detail |-> "Internal server error", status |-> 500,
          body |-> None]

UserArgs(op, username, email) ==
  [op |-> op, user_id |-> "", activity_id |-> 0,
   data |-> Some([username |-> username, email |-> email])]

\* create_user_with_password, the find_one on email.
SignUpCheckEmail(p, username, email) ==
  /\ pc[p] = "idle"
  /\ args' = [args EXCEPT ![p] = UserArgs("signup", username, Some(email))]
  /\ IF FindUser("email", Some(email)) # None
       THEN Finish(p, SignUpError("ValueError",
                                  "User with this email already exists"))
       ELSE pc' = [pc EXCEPT ![p] = "signup_username"] /\ resp' = resp
  /\ UNCHANGED <<activities, nextId, update_doc, issued, users>>

\* create_user_with_password, the find_one on username.
SignUpCheckUsername(p) ==
  /\ pc[p] = "signup_username"
  /\ IF FindUser("username", args[p].data[1].username) # None
       THEN Finish(p, SignUpError("ValueError", "Username already taken"))
       ELSE pc' = [pc EXCEPT ![p] = "signup_insert"] /\ resp' = resp
  /\ UNCHANGED <<activities, nextId, args, update_doc, issued, users>>

\* The body both user handlers return for a user record.
UserBody(id, user) ==
  [_id |-> id, username |-> user.username, email |-> user.email]

\* create_user_with_password, the insert_one.
SignUpInsert(p) ==
  /\ pc[p] = "signup_insert"
  /\ LET user_doc == [username |-> args[p].data[1].username,
                      email |-> args[p].data[1].email,
                      password_hash |-> Some("hash")]
     IN /\ users' = Append(users, user_doc)
        /\ Finish(p, Ok(UserBody(Len(users) + 1, user_doc)))
  /\ UNCHANGED <<activities, nextId, args, update_doc, issued>>

\* create_user, the find_one on username: an existing user is returned.
CreateUserCheck(p, username, email) ==
  /\ pc[p] = "idle"
  /\ args' = [args EXCEPT ![p] = UserArgs("create_user", username, email)]
  /\ LET existing_user == FindUser("username", username)
     IN IF existing_user # None
          THEN Finish(p, Ok(UserBody(existing_user[1],
                                     users[existing_user[1]])))
          ELSE pc' = [pc EXCEPT ![p] = "create_user_insert"] /\ resp' = resp
  /\ UNCHANGED <<activities, nextId, update_doc, issued, users>>

\* create_user, the insert_one.
CreateUserInsert(p) ==
  /\ pc[p] = "create_user_insert"
  /\ LET user_doc == [username |-> args[p].data[1].username,
                      email |-> args[p].data[1].email,
                      password_hash |-> None]
     IN /\ users' = Append(users, user_doc)
        /\ Finish(p, Ok(UserBody(Len(users) + 1, user_doc)))
  /\ UNCHANGED <<activities, nextId, args, update_doc, issued>>

\* The handler's response is sent; the worker is free for the next request.
Return(p) ==
  /\ pc[p] = "done"
  /\ pc' = [pc EXCEPT ![p] = "idle"]
  /\ args' = [args EXCEPT ![p] = NoArgs]
  /\ update_doc' = [update_doc EXCEPT ![p] = None]
  /\ issued' = [issued EXCEPT ![p] = None]
  /\ resp' = [resp EXCEPT ![p] = NoResp]
  /\ UNCHANGED <<activities, nextId, users>>

\* A worker serves requests whose users, payloads and activity ids are
\* drawn from the given sets; at most cap activities are ever created.
Serve(p, callers, creates, updates, ids, cap) ==
  \/ /\ nextId <= cap
     /\ \E u \in callers, d \in creates : CreateActivity(p, u, d)
  \/ \E u \in callers, a \in ids, d \in updates : UpdateFetch(p, u, a, d)
  \/ UpdateWrite(p)
  \/ UpdateReread(p)
  \/ \E u \in callers, a \in ids : DeleteActivity(p, u, a)
  \/ Return(p)

\* Requests are served one at a time, with the full range of inputs.
Next ==
  Serve("p1", Users, CreatePayloads, UpdatePayloads, 1..(MaxActs + 1), MaxActs)

Spec == Init /\ [][Next]_vars

\* Requests are served one at a time; more activities, fewer payloads.
NextStore ==
  Serve("p1", Users, StoreCreatePayloads, StoreUpdatePayloads, 1..MaxStored,
        MaxStored)

SpecStore == Init /\ [][NextStore]_vars

\* Two workers serve requests concurrently; their store operations
\* interleave.
NextConc ==
  \E p \in Procs :
    Serve(p, Users, ConcCreatePayloads, ConcUpdatePayloads, 1..MaxConcActs,
          MaxConcActs)

SpecConc == Init /\ [][NextConc]_vars

\* Requests are served one at a time: creates build the store, the read
\* operations query it.
NextQuery ==
  \/ /\ nextId <= MaxListed
     /\ \E u \in Users, d \in QueryCreatePayloads :
          CreateActivity("p1", u, d)
  \/ \E u \in Users, name \in QueryNames : Query("p1", u, name)
  \/ \E u \in Users, limit \in Limits : ListActivities("p1", u, limit)
  \/ Return("p1")

SpecQuery == Init /\ [][NextQuery]_vars

\* Requests are served one at a time: creates, updates and deletes change
\* the store, the summaries read it.
NextMixed ==
  \/ Serve("p1", Users, MixedCreatePayloads, MixedUpdatePayloads,
           1..MaxMixed, MaxMixed)
  \/ \E u \in Users, name \in QueryNames : Query("p1", u, name)

SpecMixed == Init /\ [][NextMixed]_vars

\* The user requests in progress.
InSignUp ==
  {p \in Procs :
     pc[p] \in {"signup_username", "signup_insert", "create_user_insert"}}

\* Two workers serve sign-ups and legacy user creations concurrently; a
\* request starts while fewer than MaxUsers users are stored or about to be.
NextUsers ==
  \E p \in Procs :
    \/ /\ Len(users) + Cardinality(InSignUp) < MaxUsers
       /\ \E n \in Usernames, e \in Emails : SignUpCheckEmail(p, n, e)
    \/ SignUpCheckUsername(p)
    \/ SignUpInsert(p)
    \/ /\ Len(users) + Cardinality(InSignUp) < MaxUsers
       /\ \E n \in Usernames, e \in Opt(LegacyEmails) :
            CreateUserCheck(p, n, e)
    \/ CreateUserInsert(p)
    \/ Return(p)

SpecUsers == Init /\ [][NextUsers]_vars

(***************************************************************************)
(* Properties.                                                             *)
(***************************************************************************)
RequestOf(p) == args[p]

Data(p) == args[p].data[1]

CreateDone(p) == pc[p] = "done" /\ args[p].op = "create"

\* A create request whose factor_id names a factor of the catalog.
CreateOn(p, economic) ==
  /\ CreateDone(p)
  /\ Data(p).factor_id \in FactorIds
  /\ PyIn(USD, Factors[Data(p).factor_id].unit) = economic

\* The document a finished create request reports as inserted.
Created(p) == activities[resp[p].body[1]._id]

Persisted(p) ==
  /\ resp[p].kind = "ok"
  /\ resp[p].status = 200
  /\ resp[p].body[1]._id \in DOMAIN activities

\* C1: every stored activity's total_co2e is its monetary_amount times the
\* coefficient of the factor it references when that factor's unit contains
\* "USD", and its quantity times the coefficient otherwise, whatever the
\* interleaving of the store operations of concurrent creates, updates and
\* deletes.
C1_TotalConsistent ==
  \A id \in DOMAIN activities :
    LET A == activities[id]
        F == Factors[A.factor_id]
    IN /\ A.factor_id \in FactorIds
       /\ A.total_co2e =
            IF PyIn(USD, F.unit)
              THEN A.monetary_amount * F.co2e_per_unit
              ELSE A.quantity * F.co2e_per_unit

\* Two concurrent updates of one activity fetched the same document, one
\* to change the factor to the economic one and the other to change the
\* quantity, and both have written: the later write put the first factor
\* back.
C1_Witness ==
  /\ \A p \in Procs :
       /\ args[p].op = "update"
       /\ args[p].activity_id = 1
       /\ pc[p] \in {"reread", "done"}
       /\ update_doc[p] # None
  /\ Data("p1").factor_id = Some("f2")
  /\ Data("p2").quantity = Some(2)
  /\ update_doc["p1"][1].quantity = 1
  /\ update_doc["p2"][1].factor_id = "f1"
  /\ 1 \in DOMAIN activities
  /\ activities[1].factor_id = "f1"
  /\ activities[1].quantity = 2

\* C2: a create against a physical factor F with quantity q > 0 succeeds and
\* persists total_co2e = q * F.co2e_per_unit, unit_used = F.unit and the
\* monetary_amount as supplied.
C2_PhysicalCreate ==
  \A p \in Procs :
    CreateOn(p, FALSE) /\ Data(p).quantity > 0 =>
      /\ Persisted(p)
      /\ Created(p).total_co2e =
           Data(p).quantity * Factors[Data(p).factor_id].co2e_per_unit
      /\ Created(p).unit_used = Factors[Data(p).factor_id].unit
      /\ Created(p).monetary_amount = Data(p).monetary_amount

\* A physical create that carried a non-zero monetary amount has finished.
C2_Witness ==
  /\ CreateOn("p1", FALSE)
  /\ Data("p1").quantity = 2
  /\ Data("p1").monetary_amount = 2
  /\ resp["p1"].kind = "ok"

\* C3: a create against an economic factor F with monetary_amount m > 0
\* persists total_co2e = m * F.co2e_per_unit whatever the quantity; with
\* m <= 0 it fails with the validation error and inserts nothing.
C3_EconomicCreate ==
  \A p \in Procs :
    CreateOn(p, TRUE) =>
      IF Data(p).monetary_amount > 0
        THEN /\ Persisted(p)
             /\ Created(p).total_co2e =
                  Data(p).monetary_amount
                    * Factors[Data(p).factor_id].co2e_per_unit
        ELSE /\ resp[p].kind = "ValueError"
             /\ resp[p].detail =
                  "Monetary amount must be positive for economic activities"
             /\ resp[p].status = 400
             /\ resp[p].body = None
             /\ issued[p] = None

\* An economic create with a quantity other than 1 has been persisted.
C3_Witness ==
  /\ CreateOn("p1", TRUE)
  /\ Data("p1").quantity = 2
  /\ Data("p1").monetary_amount = 2
  /\ resp["p1"].kind = "ok"

\* C4: every activity a create persists against an economic factor has the
\* stored quantity 1, whatever quantity the caller supplied.
C4_EconomicQuantityOne ==
  \A p \in Procs :
    CreateOn(p, TRUE) /\ resp[p].kind = "ok" => Created(p).quantity = 1

\* The hybrid rule, read off a stored document.
Hybrid(A) ==
  IF PyIn(USD, Factors[A.factor_id].unit)
    THEN A.monetary_amount * Factors[A.factor_id].co2e_per_unit
    ELSE A.quantity * Factors[A.factor_id].co2e_per_unit

\* The value a field has after an update: the supplied one when the payload
\* carries the field, the stored one otherwise.
Supplied(field, before) == IF field # None THEN field[1] ELSE before

\* C5: the write of a successful update by the owner leaves each of
\* factor_id, quantity, monetary_amount and date equal to the supplied value
\* when the payload carries the field and to the value stored before when it
\* does not, and total_co2e equal to the hybrid rule on the merged values.
C5_MergeRule ==
  [][\A p \in Procs :
       pc[p] = "update_one" /\ pc'[p] = "reread" =>
         LET d == Data(p)
             before == activities[args[p].activity_id]
             after == activities'[args[p].activity_id]
         IN /\ after.factor_id = Supplied(d.factor_id, before.factor_id)
            /\ after.quantity = Supplied(d.quantity, before.quantity)
            /\ after.monetary_amount =
                 Supplied(d.monetary_amount, before.monetary_amount)
            /\ after.date = Supplied(d.date, before.date)
            /\ after.total_co2e = Hybrid(after)]_vars

\* C6: an update by the owner that carries no field does not fail, writes
\* back the record exactly as it was and reports it with status 200; so any
\* number of such updates leaves the record as one of them does.
C6_EmptyUpdate ==
  [][\A p \in Procs :
       /\ ( /\ pc[p] = "idle"
            /\ args'[p].op = "update"
            /\ Present(args'[p].data[1]) = {}
            /\ args'[p].activity_id \in DOMAIN activities
            /\ activities[args'[p].activity_id].user_id = args'[p].user_id )
          => pc'[p] = "update_one"
       /\ ( /\ pc[p] = "update_one"
            /\ pc'[p] # "update_one"
            /\ Present(Data(p)) = {} )
          => pc'[p] = "reread" /\ activities' = activities
       /\ ( /\ pc[p] = "reread"
            /\ pc'[p] # "reread"
            /\ Present(Data(p)) = {} )
          => /\ resp'[p].kind = "ok"
             /\ resp'[p].status = 200
             /\ resp'[p].body =
                  Some([_id |-> args[p].activity_id]
                         @@ activities[args[p].activity_id])]_vars

\* An update without fields has finished on an economic activity that was
\* created with a quantity other than 1.
C6_Witness ==
  /\ pc["p1"] = "done"
  /\ args["p1"].op = "update"
  /\ Present(Data("p1")) = {}
  /\ resp["p1"].kind = "ok"
  /\ activities[args["p1"].activity_id].factor_id = "f2"
  /\ activities[args["p1"].activity_id].quantity = 2

NotFoundOrUnauthorized ==
  [kind |-> "ValueError", detail |-> "Activity not found or user unauthorized",
   status |-> 404, body |-> None]

\* C7: an update or delete that names an activity of another user gets the
\* response a call with an activity_id that does not exist gets (ValueError,
\* "Activity not found or user unauthorized", 404), and the store is
\* unchanged.
C7_WrongOwnerAsMissing ==
  [][\A p \in Procs :
       ( /\ pc[p] = "idle"
         /\ args'[p].op \in {"update", "delete"}
         /\ \/ args'[p].activity_id \notin DOMAIN activities
            \/ activities[args'[p].activity_id].user_id # args'[p].user_id )
       => /\ pc'[p] = "done"
          /\ resp'[p] = NotFoundOrUnauthorized
          /\ activities' = activities]_vars

\* An update that named another user's activity has been answered.
C7_Witness ==
  /\ pc["p1"] = "done"
  /\ args["p1"].op = "update"
  /\ args["p1"].activity_id \in DOMAIN activities
  /\ activities[args["p1"].activity_id].user_id # args["p1"].user_id
  /\ resp["p1"].status = 404

\* C8: every store operation of an update or delete that addresses one
\* activity selects it by both activity_id and user_id.
C8_FiltersScopedByUser ==
  \A p \in Procs :
    args[p].op \in {"update", "delete"} /\ issued[p] # None =>
      /\ issued[p].filter._id = Some(args[p].activity_id)
      /\ issued[p].filter.user_id = Some(args[p].user_id)

\* C9: a delete by the owner removes the named activity and no other; any
\* other delete fails with "not found or unauthorized" and changes nothing;
\* an activity that is gone stays gone, so repeating a delete fails.
C9_DeleteFrame ==
  [][/\ \A p \in Procs :
          pc[p] = "idle" /\ args'[p].op = "delete" =>
            LET a == args'[p].activity_id IN
            IF a \in DOMAIN activities
                 /\ activities[a].user_id = args'[p].user_id
              THEN /\ resp'[p].kind = "ok"
                   /\ DOMAIN activities' = DOMAIN activities \ {a}
                   /\ \A i \in DOMAIN activities' :
                        activities'[i] = activities[i]
              ELSE /\ resp'[p] = NotFoundOrUnauthorized
                   /\ activities' = activities
     /\ \A a \in 1..(nextId - 1) :
          a \notin DOMAIN activities => a \notin DOMAIN activities']_vars

\* A delete has been repeated on an activity that had been deleted, while
\* another activity is stored.
C9_Witness ==
  /\ pc["p1"] = "done"
  /\ args["p1"].op = "delete"
  /\ args["p1"].activity_id < nextId
  /\ args["p1"].activity_id \notin DOMAIN activities
  /\ resp["p1"] = NotFoundOrUnauthorized
  /\ DOMAIN activities # {}

RECURSIVE SumCO2e(_)
\* The sum of total_co2e_kg over the rows of a summary.
SumCO2e(rows) ==
  IF rows = <<>> THEN 0 ELSE Head(rows).total_co2e_kg + SumCO2e(Tail(rows))

RECURSIVE SumGroups(_)
\* The sum of total_co2e_kg over a set of groups.
SumGroups(groups) ==
  IF groups = {} THEN 0
  ELSE LET g == CHOOSE g \in groups : TRUE
       IN g.total_co2e_kg + SumGroups(groups \ {g})

OwnedBy(user_id) ==
  {id \in DOMAIN activities : activities[id].user_id = user_id}

\* Each activity of the user is selected by exactly one of the two $match
\* stages.
Partitioned(user_id) ==
  \A id \in OwnedBy(user_id) :
    PhysicalMatch(activities[id], user_id)
      # EconomicMatch(activities[id], user_id)

Abs(x) == IF x < 0 THEN -x ELSE x

\* C10 as stated: the by-item and by-sector filters partition each user's
\* activities, and the by-item totals plus the by-sector CO2e totals add up
\* to the sum of total_co2e over the user's activities.
C10_PartitionExactSum ==
  \A u \in Users :
    /\ Partitioned(u)
    /\ \A ps \in GetPhysicalEmissionsSummary(u),
          es \in GetEconomicImpactAnalysis(u) :
         SumCO2e(ps) + SumCO2e(es) = SumField(OwnedBy(u), "total_co2e")

\* C10 as amended: in every reachable state the filters partition each
\* user's activities and the group sums of the two pipelines add up to the
\* sum of total_co2e over the user's activities; the reported rows, each
\* rounded to two decimals, add up to that sum to within 0.005 per row.
C10_PartitionSumToRounding ==
  \A u \in Users :
    LET total == SumField(OwnedBy(u), "total_co2e")
        physical == PhysicalGroups(u)
        economic == EconomicGroups(u)
    IN /\ Partitioned(u)
       /\ SumGroups(physical) + SumGroups(economic) = total
       /\ \A ps \in GetPhysicalEmissionsSummary(u),
             es \in GetEconomicImpactAnalysis(u) :
            Abs(SumCO2e(ps) + SumCO2e(es) - total) <= 5 * (Len(ps) + Len(es))

\* A user has a physical and an economic activity whose totals are not
\* whole hundredths.
C10_Witness ==
  \E i, j \in OwnedBy("u1") :
    /\ PhysicalMatch(activities[i], "u1")
    /\ EconomicMatch(activities[j], "u1")
    /\ activities[i].total_co2e % 10 # 0
    /\ activities[j].total_co2e % 10 # 0

ValidationDetail == "Monetary amount must be positive for economic activities"

\* C15: at the HTTP boundary of create, update and delete, a failure that
\* reports a missing activity, a wrong owner or a missing factor has status
\* 404 and a failure that reports a non-positive monetary amount has status
\* 400, whichever operation raised it.
C15_StatusByFailureKind ==
  \A p \in Procs :
    /\ pc[p] = "done"
    /\ args[p].op \in {"create", "update", "delete"}
    /\ resp[p].kind = "ValueError"
    => IF resp[p].detail = ValidationDetail
         THEN resp[p].status = 400
         ELSE resp[p].status = 404

\* C16: the write of a successful update whose payload names a factor G of
\* the catalog other than the activity's current one stores factor_id = G,
\* unit_used = G.unit and total_co2e by G's rule (monetary if G.unit contains
\* "USD", quantity otherwise) on the merged quantity and monetary_amount; an
\* update by the owner that names a well-formed factor id that is not in the
\* catalog fails with the error create raises for it (ValueError, "Emission
\* factor not found") and writes nothing.
C16_FactorSwitch ==
  [][\A p \in Procs :
       /\ ( /\ pc[p] = "update_one"
            /\ pc'[p] = "reread"
            /\ Data(p).factor_id # None
            /\ Data(p).factor_id[1] \in FactorIds
            /\ Data(p).factor_id[1] # activities[args[p].activity_id].factor_id )
          => LET G == Data(p).factor_id[1]
                 before == activities[args[p].activity_id]
                 after == activities'[args[p].activity_id]
                 q == Supplied(Data(p).quantity, before.quantity)
                 m == Supplied(Data(p).monetary_amount, before.monetary_amount)
             IN /\ after.factor_id = G
                /\ after.unit_used = Factors[G].unit
                /\ after.total_co2e =
                     IF PyIn(USD, Factors[G].unit)
                       THEN m * Factors[G].co2e_per_unit
                       ELSE q * Factors[G].co2e_per_unit
       /\ ( /\ pc[p] = "idle"
            /\ args'[p].op = "update"
            /\ args'[p].activity_id \in DOMAIN activities
            /\ activities[args'[p].activity_id].user_id = args'[p].user_id
            /\ args'[p].data[1].factor_id # None
            /\ args'[p].data[1].factor_id[1] \notin FactorIds \cup {""} )
          => /\ pc'[p] = "done"
             /\ resp'[p].kind = "ValueError"
             /\ resp'[p].detail = "Emission factor not found"
             /\ activities' = activities]_vars

\* An update that names the economic factor and a quantity has written: the
\* activity references the economic factor and carries its unit.
C16_Witness ==
  /\ pc["p1"] = "reread"
  /\ Data("p1").factor_id = Some("f2")
  /\ Data("p1").quantity = Some(2)
  /\ Data("p1").monetary_amount = None
  /\ activities[args["p1"].activity_id].factor_id = "f2"
  /\ activities[args["p1"].activity_id].unit_used = USD
  /\ activities[args["p1"].activity_id].total_co2e = 866

\* C17: a create or update that fails with factor not found, with the
\* validation error or with activity not found or unauthorized fails in the
\* first step of the call and leaves the activity store as it was: nothing
\* is inserted and no stored activity is changed.
C17_FailureLeavesStore ==
  [][\A p \in Procs :
       /\ pc[p] # "done"
       /\ pc'[p] = "done"
       /\ args'[p].op \in {"create", "update"}
       /\ resp'[p].kind = "ValueError"
       => /\ pc[p] = "idle"
          /\ activities' = activities
          /\ nextId' = nextId]_vars

\* An update of a stored physical activity without an amount to the economic
\* factor has failed with the validation error.
C17_Witness ==
  /\ pc["p1"] = "done"
  /\ args["p1"].op = "update"
  /\ resp["p1"].detail = ValidationDetail
  /\ args["p1"].activity_id \in DOMAIN activities
  /\ activities[args["p1"].activity_id].factor_id = "f1"
  /\ activities[args["p1"].activity_id].monetary_amount = 0

CalcFields ==
  {"factor_id", "quantity", "monetary_amount", "total_co2e", "unit_used"}

\* C18: with interleaved updates, the document an update writes is derived
\* from the snapshot that request fetched; its write sets factor_id, quantity,
\* monetary_amount, total_co2e and unit_used of the stored record to that
\* document's values; and no other step changes a stored record.  So the
\* five fields of a record are those of the request that wrote last, and a
\* change made only by an earlier write is lost.
C18_LastWriteWins ==
  [][/\ \A p \in Procs :
          /\ ( pc[p] = "idle" /\ pc'[p] = "update_one" )
             => LET d == args'[p].data[1]
                    snapshot == activities[args'[p].activity_id]
                    doc == update_doc'[p][1]
                    G == Supplied(d.factor_id, snapshot.factor_id)
                    q == Supplied(d.quantity, snapshot.quantity)
                    m == Supplied(d.monetary_amount, snapshot.monetary_amount)
                IN /\ doc.factor_id = G
                   /\ doc.quantity = q
                   /\ doc.monetary_amount = m
                   /\ doc.unit_used = Factors[G].unit
                   /\ doc.total_co2e =
                        IF PyIn(USD, Factors[G].unit)
                          THEN m * Factors[G].co2e_per_unit
                          ELSE q * Factors[G].co2e_per_unit
          /\ ( pc[p] = "update_one" /\ pc'[p] = "reread" )
             => \A f \in CalcFields :
                  activities'[args[p].activity_id][f] = update_doc[p][1][f]
     /\ \A id \in DOMAIN activities \cap DOMAIN activities' :
          activities'[id] # activities[id] =>
            \E p \in Procs :
              /\ pc[p] = "update_one"
              /\ pc'[p] = "reread"
              /\ args[p].activity_id = id]_vars

\* Two updates of one activity fetched the same document, the first to
\* change the quantity and the second to change the factor, and both have
\* written, the second last: the first one's quantity is lost.
C18_Witness ==
  /\ \A p \in Procs :
       /\ args[p].op = "update"
       /\ args[p].activity_id = 1
       /\ pc[p] \in {"reread", "done"}
       /\ update_doc[p] # None
  /\ Data("p1").quantity = Some(2)
  /\ Data("p2").factor_id = Some("f1")
  /\ update_doc["p1"][1].factor_id = "f2"
  /\ update_doc["p1"][1].quantity = 2
  /\ update_doc["p2"][1].quantity = 1
  /\ 1 \in DOMAIN activities
  /\ activities[1].factor_id = "f1"
  /\ activities[1].quantity = 1

QueryDone(p, name) ==
  pc[p] = "done" /\ args[p].op = name /\ resp[p].kind = "ok"

RECURSIVE SumEmissions(_)
\* The sum of emissions over the rows of a time summary.
SumEmissions(rows) ==
  IF rows = <<>> THEN 0 ELSE Head(rows).emissions + SumEmissions(Tail(rows))

\* The number of buckets the dates of the user's activities fall in.
Buckets(user_id, name) ==
  Cardinality(
    { CASE name = "monthly" -> <<Year(activities[id].date),
                                 Month(activities[id].date)>>
        [] name = "weekly" -> <<Year(activities[id].date),
                                Week(activities[id].date)>>
        [] name = "daily" -> <<Year(activities[id].date),
                               DayOfYear(activities[id].date)>>
      : id \in OwnedBy(user_id) })

\* C11: the rows of a monthly, weekly or daily summary returned for a user
\* are one per bucket the user's activities fall in, and their emissions add
\* up to the sum of total_co2e over the user's activities, to within the
\* 0.005 per row that rounding each row to two decimals allows.
C11_TimeSummariesConserve ==
  \A p \in Procs, name \in {"monthly", "weekly", "daily"} :
    pc[p] = "done" /\ args[p].op = name =>
      /\ resp[p].kind = "ok"
      /\ LET rows == resp[p].body[1]
             u == args[p].user_id
         IN /\ Len(rows) = Buckets(u, name)
            /\ Abs(SumEmissions(rows) - SumField(OwnedBy(u), "total_co2e"))
                 <= 5 * Len(rows)

\* A weekly summary of two rows has been returned for a user whose two
\* activities lie in one month, while another user has none.
C11_Witness ==
  /\ QueryDone("p1", "weekly")
  /\ args["p1"].user_id = "u1"
  /\ Len(resp["p1"].body[1]) = 2
  /\ Cardinality(OwnedBy("u1")) = 2
  /\ Buckets("u1", "monthly") = 1

\* The activities of a user whose factor is physical (economic = FALSE) or
\* economic (economic = TRUE).
OfKind(user_id, economic) ==
  {id \in OwnedBy(user_id) :
     PyIn(USD, Factors[activities[id].factor_id].unit) = economic}

\* The sums of total_co2e by item name over a set of activities.
TotalOfItem(ids, item) ==
  SumField({id \in ids : Factors[activities[id].factor_id].item_name = item},
           "total_co2e")

ItemsOf(ids) == {Factors[activities[id].factor_id].item_name : id \in ids}

\* C12 as stated: biggest_physical is null iff the user has no physical
\* activity and biggest_economic is null iff the user has no economic
\* activity; a record that is not null is the first row of the by-item or
\* by-sector summary.
C12_BiggestIsFirstRow ==
  \A p \in Procs :
    pc[p] = "done" /\ args[p].op = "biggest-impactors" =>
      /\ resp[p].kind = "ok"
      /\ LET b == resp[p].body[1]
             u == args[p].user_id
         IN /\ (b.biggest_physical = None) = (OfKind(u, FALSE) = {})
            /\ (b.biggest_economic = None) = (OfKind(u, TRUE) = {})
            /\ b.biggest_physical # None =>
                 \E s \in GetPhysicalEmissionsSummary(u) :
                   s[1] = b.biggest_physical[1]
            /\ b.biggest_economic # None =>
                 \E s \in GetEconomicImpactAnalysis(u) :
                   s[1] = b.biggest_economic[1]

\* C12 as amended: biggest_physical is null iff the user has no physical
\* activity and biggest_economic is null iff the user has no economic
\* activity; a record that is not null names a group (by item name) of that
\* kind and carries its summed total_co2e, not rounded, which is greater
\* than or equal to that of every group of the kind; the group is that of
\* the first row of a by-item or by-sector summary, whose total is the same
\* sum rounded to two decimals.
C12_BiggestIsMaxGroup ==
  \A p \in Procs :
    pc[p] = "done" /\ args[p].op = "biggest-impactors" =>
      /\ resp[p].kind = "ok"
      /\ LET b == resp[p].body[1]
             u == args[p].user_id
         IN /\ (b.biggest_physical = None) = (OfKind(u, FALSE) = {})
            /\ (b.biggest_economic = None) = (OfKind(u, TRUE) = {})
            /\ b.biggest_physical # None =>
                 LET r == b.biggest_physical[1]
                     ids == OfKind(u, FALSE)
                 IN /\ r.item_name \in ItemsOf(ids)
                    /\ r.total_co2e_kg = TotalOfItem(ids, r.item_name)
                    /\ \A k \in ItemsOf(ids) :
                         r.total_co2e_kg >= TotalOfItem(ids, k)
                    /\ \E s \in GetPhysicalEmissionsSummary(u) :
                         /\ s[1].item_name = r.item_name
                         /\ s[1].total_co2e_kg = Round2(r.total_co2e_kg)
            /\ b.biggest_economic # None =>
                 LET r == b.biggest_economic[1]
                     ids == OfKind(u, TRUE)
                 IN /\ r.sector \in ItemsOf(ids)
                    /\ r.total_co2e_kg = TotalOfItem(ids, r.sector)
                    /\ \A k \in ItemsOf(ids) :
                         r.total_co2e_kg >= TotalOfItem(ids, k)
                    /\ \E s \in GetEconomicImpactAnalysis(u) :
                         /\ s[1].sector = r.sector
                         /\ s[1].total_co2e_kg = Round2(r.total_co2e_kg)

\* The biggest impactors of a user with two physical groups of different
\* totals and no economic activity have been returned.
C12_Witness ==
  /\ QueryDone("p1", "biggest-impactors")
  /\ args["p1"].user_id = "u1"
  /\ resp["p1"].body[1].biggest_economic = None
  /\ resp["p1"].body[1].biggest_physical # None
  /\ resp["p1"].body[1].biggest_physical[1].item_name = "Chicken"
  /\ \E i \in OwnedBy("u1") : activities[i].total_co2e = 1255

Min(a, b) == IF a < b THEN a ELSE b

\* C13: the activity list of a user with limit returns exactly
\* min(limit, n) records, n the number of the user's stored activities; each
\* belongs to the user; they are in non-increasing order of date; and no
\* omitted activity of the user has a date later than a returned one.
C13_ListContract ==
  \A p \in Procs :
    pc[p] = "done" /\ args[p].op = "list" =>
      /\ resp[p].kind = "ok"
      /\ LET rows == resp[p].body[1]
             u == args[p].user_id
             limit == args[p].data[1].limit
             returned == {rows[i]._id : i \in DOMAIN rows}
         IN /\ Len(rows) = Min(limit, Cardinality(OwnedBy(u)))
            /\ Cardinality(returned) = Len(rows)
            /\ returned \subseteq OwnedBy(u)
            /\ \A i, j \in DOMAIN rows : i < j => rows[i].date >= rows[j].date
            /\ \A id \in OwnedBy(u) \ returned, i \in DOMAIN rows :
                 activities[id].date <= rows[i].date

\* The name of the category of a stored activity's factor.
CategoryOf(id) ==
  Categories[Factors[activities[id].factor_id].category_id].name

\* C14 as stated: the by-category summary of a user has exactly one row per
\* category name of the user's activities, each row's total is the sum of
\* total_co2e of the user's activities in the category, and the rows are in
\* non-increasing order of total.
C14_CategoryExactSum ==
  \A p \in Procs :
    pc[p] = "done" /\ args[p].op = "by-category" =>
      /\ resp[p].kind = "ok"
      /\ LET rows == resp[p].body[1]
             ids == OwnedBy(args[p].user_id)
         IN /\ Len(rows) = Cardinality({CategoryOf(id) : id \in ids})
            /\ {rows[i].category : i \in DOMAIN rows}
                 = {CategoryOf(id) : id \in ids}
            /\ \A i \in DOMAIN rows :
                 rows[i].total_co2e_kg =
                   SumField({id \in ids : CategoryOf(id) = rows[i].category},
                            "total_co2e")
            /\ \A i, j \in DOMAIN rows :
                 i < j => rows[i].total_co2e_kg >= rows[j].total_co2e_kg

\* C14 as amended: the by-category summary of a user has exactly one row per
\* category name of the user's activities, each row's total is the sum of
\* total_co2e of the user's activities in the category, physical and
\* economic alike, rounded to two decimals, and the rows are in
\* non-increasing order of total.
C14_CategoryRoundedSum ==
  \A p \in Procs :
    pc[p] = "done" /\ args[p].op = "by-category" =>
      /\ resp[p].kind = "ok"
      /\ LET rows == resp[p].body[1]
             ids == OwnedBy(args[p].user_id)
         IN /\ Len(rows) = Cardinality({CategoryOf(id) : id \in ids})
            /\ {rows[i].category : i \in DOMAIN rows}
                 = {CategoryOf(id) : id \in ids}
            /\ \A i \in DOMAIN rows :
                 LET sum == SumField({id \in ids :
                                        CategoryOf(id) = rows[i].category},
                                     "total_co2e")
                     low == sum - (sum % 10)
                 IN /\ rows[i].total_co2e_kg \in {low, low + 10}
                    /\ 2 * Abs(rows[i].total_co2e_kg - sum) <= 10
                    /\ sum % 10 = 0 => rows[i].total_co2e_kg = sum
            /\ \A i, j \in DOMAIN rows :
                 i < j => rows[i].total_co2e_kg >= rows[j].total_co2e_kg

\* The by-category summary of a user with a Beef and a Chicken activity has
\* been returned: one row, for Food.
C14_Witness ==
  /\ QueryDone("p1", "by-category")
  /\ args["p1"].user_id = "u1"
  /\ Len(resp["p1"].body[1]) = 1
  /\ {activities[id].factor_id : id \in OwnedBy("u1")} = {"f1", "f3"}

\* The stored activities of a user, by id.
OwnedDocs(user_id) == [id \in OwnedBy(user_id) |-> activities[id]]

\* What each read operation may return for a user.
AllResults(user_id) ==
  << [name \in QueryNames |-> QueryResults(name, user_id)],
     [limit \in Limits \ {0} |-> GetUserActivities(user_id, limit)] >>

\* C20: a step that changes the store but none of a user's activities
\* changes the result of none of the read operations for that user (the
\* catalog never changes), and a read operation leaves the store as it is.
C20_QueriesScopedAndReadOnly ==
  [][/\ \A u \in Users :
          activities' # activities /\ OwnedDocs(u)' = OwnedDocs(u) =>
            AllResults(u)' = AllResults(u)
     /\ \A p \in Procs :
          pc[p] = "idle" /\ args'[p].op \in QueryNames \cup {"list"} =>
            /\ activities' = activities
            /\ nextId' = nextId]_vars

\* A summary has been returned for a user who has an activity while another
\* user has one too.
C20_Witness ==
  /\ QueryDone("p1", "by-category")
  /\ args["p1"].user_id = "u1"
  /\ OwnedBy("u1") # {}
  /\ OwnedBy("u2") # {}

\* C19: no two user records share a username, and no record that existed
\* when a sign-up that succeeded inserted its own has that sign-up's
\* username or email: had either belonged to an existing user, the sign-up
\* would have failed with the conflict error and created nothing.
C19_UniqueUsernames ==
  /\ \A i, j \in DOMAIN users :
       i # j => users[i].username # users[j].username
  /\ \A p \in Procs :
       pc[p] = "done" /\ args[p].op = "signup" /\ resp[p].kind = "ok" =>
         \A i \in DOMAIN users :
           i < resp[p].body[1]._id =>
             /\ users[i].username # args[p].data[1].username
             /\ users[i].email # args[p].data[1].email

(***************************************************************************)
(* C21: in every reachable state, every stored activity's unit_used is the *)
(* unit of the factor its factor_id references; so the by-sector filter    *)
(* selects an activity exactly when its factor is economic, and then its   *)
(* total_co2e is monetary_amount * co2e_per_unit, and the by-item filter   *)
(* selects it exactly when its factor is physical, and then its total_co2e *)
(* is quantity * co2e_per_unit.                                            *)
(***************************************************************************)
C21_UnitMatchesFactor ==
  \A id \in DOMAIN activities :
    LET A == activities[id]
        found == FindFactor(A.factor_id)
    IN /\ found # None
       /\ A.unit_used = found[1].unit
       /\ EconomicMatch(A, A.user_id) <=> IsEconomic(found[1])
       /\ EconomicMatch(A, A.user_id) =>
            A.total_co2e = A.monetary_amount * found[1].co2e_per_unit
       /\ PhysicalMatch(A, A.user_id) <=> ~IsEconomic(found[1])
       /\ PhysicalMatch(A, A.user_id) =>
            A.total_co2e = A.quantity * found[1].co2e_per_unit

\* An activity created with the physical factor f1 has been switched to
\* the economic factor f2 by an update of the other worker.
C21_Witness ==
  \E p, q \in Procs :
    /\ pc[p] = "done" /\ args[p].op = "create" /\ resp[p].kind = "ok"
    /\ Data(p).factor_id = "f1"
    /\ pc[q] = "done" /\ args[q].op = "update" /\ resp[q].kind = "ok"
    /\ Data(q).factor_id = Some("f2")
    /\ args[q].activity_id = resp[p].body[1]._id
    /\ args[q].activity_id \in DOMAIN activities
    /\ activities[args[q].activity_id].unit_used = USD
    /\ EconomicMatch(activities[args[q].activity_id], args[q].user_id)

(***************************************************************************)
(* C22: an activity keeps its identifier and its user_id for as long as it *)
(* is stored, whatever updates and deletes interleave; and a step that     *)
(* modifies a stored activity is the update_one of an updateActivity       *)
(* request whose user_id is the activity's user_id.                        *)
(***************************************************************************)
C22_OwnerNeverChanges ==
  [][\A id \in DOMAIN activities \cap DOMAIN activities' :
       /\ activities'[id].user_id = activities[id].user_id
       /\ activities'[id] # activities[id] =>
            \E p \in Procs :
              /\ args[p].op = "update"
              /\ pc[p] = "update_one" /\ pc'[p] = "reread"
              /\ args[p].activity_id = id
              /\ args[p].user_id = activities[id].user_id]_vars

\* One worker has written the owner's update of an activity while the
\* other has refused an update of the same activity by another user.
C22_Witness ==
  \E p, q \in Procs :
    /\ args[p].op = "update" /\ pc[p] = "reread"
    /\ args[p].activity_id \in DOMAIN activities
    /\ activities[args[p].activity_id].user_id = args[p].user_id
    /\ Data(p).factor_id = Some("f2")
    /\ activities[args[p].activity_id].factor_id = "f2"
    /\ args[q].op = "update" /\ pc[q] = "done"
    /\ args[q].activity_id = args[p].activity_id
    /\ args[q].user_id # args[p].user_id
    /\ resp[q].status = 404

(***************************************************************************)
(* C23: once an activity has been deleted its id is never in the store     *)
(* again; the update_one of an updateActivity request that fetched the     *)
(* activity before the delete matches nothing, inserts nothing, and the    *)
(* request ends with the not-found error, not with a success payload.      *)
(***************************************************************************)
C23_DeletedStaysDeleted ==
  [][/\ \A id \in 1..(nextId - 1) :
          id \notin DOMAIN activities => id \notin DOMAIN activities'
     /\ \A p \in Procs :
          (/\ pc[p] = "update_one"
           /\ pc'[p] # "update_one"
           /\ args[p].activity_id \notin DOMAIN activities)
          => /\ activities' = activities
             /\ nextId' = nextId
             /\ pc'[p] = "done"
             /\ resp'[p].kind = "ValueError"
             /\ resp'[p].detail = "Activity not found"
             /\ resp'[p].status = 404
             /\ resp'[p].body = None]_vars

\* A delete succeeded between the fetch and the update_one of an update of
\* the same activity, and the update has ended with the not-found error.
C23_Witness ==
  \E p, q \in Procs :
    /\ args[q].op = "delete" /\ pc[q] = "done" /\ resp[q].kind = "ok"
    /\ args[p].op = "update" /\ pc[p] = "done"
    /\ args[p].activity_id = args[q].activity_id
    /\ update_doc[p] # None
    /\ issued[p] # None /\ issued[p].op = "update_one"
    /\ resp[p].detail = "Activity not found"
    /\ args[p].activity_id \notin DOMAIN activities

\* A summary request has ended with its rows.
SummaryDone(p) ==
  pc[p] = "done" /\ args[p].op \in QueryNames /\ resp[p].kind = "ok"

\* The CO2e totals of the rows of a finished summary request.
RowTotals(p) ==
  LET b == resp[p].body[1] IN
  IF args[p].op \in {"physical", "economic", "by-category"}
    THEN {b[i].total_co2e_kg : i \in DOMAIN b}
  ELSE IF args[p].op \in {"monthly", "weekly", "daily"}
    THEN {b[i].emissions : i \in DOMAIN b}
  ELSE {x[1].total_co2e_kg :
          x \in {b.biggest_physical, b.biggest_economic} \ {None}}

(***************************************************************************)
(* C24, as stated: every stored activity has total_co2e > 0 in every       *)
(* reachable state, and every row of every aggregate summary has a         *)
(* strictly positive CO2e total.                                           *)
(***************************************************************************)
C24_RowsStrictlyPositive ==
  /\ \A id \in DOMAIN activities : activities[id].total_co2e > 0
  /\ \A p \in Procs : SummaryDone(p) => \A t \in RowTotals(p) : t > 0

(***************************************************************************)
(* C24, amended: every stored activity has total_co2e > 0 in every         *)
(* reachable state; every row of every aggregate summary has a CO2e total  *)
(* that is not negative; the biggest-impactor records, which are not       *)
(* rounded, are strictly positive, and a row of a rounded summary is 0.00  *)
(* only when the user has an activity whose total_co2e is at most 0.005.   *)
(***************************************************************************)
C24_TotalsPositiveRowsRounded ==
  /\ \A id \in DOMAIN activities : activities[id].total_co2e > 0
  /\ \A p \in Procs :
       SummaryDone(p) =>
         \A t \in RowTotals(p) :
           /\ t >= 0
           /\ args[p].op = "biggest-impactors" => t > 0
           /\ t = 0 =>
                \E id \in DOMAIN activities :
                  /\ activities[id].user_id = args[p].user_id
                  /\ activities[id].total_co2e <= 5

\* A summary of a user whose only activity is one litre of water, 0.004
\* of CO2e, has answered with a row of 0.00.
C24_Witness ==
  \E p \in Procs :
    /\ SummaryDone(p)
    /\ 0 \in RowTotals(p)
    /\ \E id \in DOMAIN activities :
         /\ activities[id].user_id = args[p].user_id
         /\ activities[id].factor_id = "f4"
         /\ activities[id].total_co2e = 4

====
